---- MODULE Spec2Model ----
(***************************************************************************)
(* Detection orchestration of QuickScan: App page switching, the           *)
(* DetectionPage step loop (startDetection / continueFromNextStep), its    *)
(* async probe continuations, the interactive test callbacks and the       *)
(* report assembled by finishDetection and read by ReportPage.             *)
(*                                                                         *)
(* React semantics that matter here:                                       *)
(*  - a state setter of an unmounted DetectionPage is a no-op;             *)
(*  - an async loop keeps the `steps`, `interactiveResults` and probe-data *)
(*    values of the render whose closure started it (its snapshot);        *)
(*  - setTimeout callbacks with equal delay fire in creation order.        *)
(***************************************************************************)
EXTENDS Integers, Sequences, FiniteSets, TLC

VARIABLES
  page,         \* App currentPage ("crashed" = React root unmounted by a render error)
  appReport,    \* App report: <<>> or <<report>>
  emitted,      \* every onComplete(report) call so far
  gen,          \* mount count of DetectionPage (current mount id)
  steps,        \* DetectionPage steps[i].status of the current mount
  isRunning,    \* DetectionPage isRunning
  currentStep,  \* DetectionPage currentStep
  activeTest,   \* DetectionPage activeTest ("none" = null)
  hw,           \* hardwareData
  bat,          \* batteryData
  sto,          \* storageData
  ref,          \* refurbishmentData
  ir,           \* interactiveResults
  tasks,        \* in-flight async step loops (startDetection/continueFromNextStep)
  micTimers,    \* pending 50 ms timers of the MicrophoneTest buttons
  lastSig,      \* step id of the test callback the last action delivered, or "none"
  kbPressed,    \* pressedKeys of the KeyboardTest that last called onComplete
  spButton      \* button of the SpeakerTest that last called onComplete ("none" before)

vars == <<page, appReport, emitted, gen, steps, isRunning, currentStep, activeTest,
          hw, bat, sto, ref, ir, tasks, micTimers, lastSig, kbPressed, spButton>>

-----------------------------------------------------------------------------
(* Bounds *)
MaxGen == 1
MaxMicTimers == 2
\* DetectionPage mounts in the back-and-restart runs of SpecRestart
MaxRestarts == 2

(* Step catalog *)
StepIds == <<"hardware", "battery", "storage", "refurbishment", "network",
             "screen", "keyboard", "trackpad", "camera", "microphone",
             "speaker", "sensors">>
N == Len(StepIds)
IsInteractive(i) == i \in 6..11
Idx(id) == CHOOSE i \in 1..N : StepIds[i] = id
InteractiveIds == {StepIds[i] : i \in 6..11}

\* KeyboardTest MAC_KEYBOARD_LAYOUT.flat() (event.code values)
AllKeys == <<"Escape", "F1", "F2", "F3", "F4", "F5", "F6", "F7", "F8", "F9", "F10", "F11", "F12",
             "Backquote", "Digit1", "Digit2", "Digit3", "Digit4", "Digit5", "Digit6", "Digit7",
             "Digit8", "Digit9", "Digit0", "Minus", "Equal", "Backspace",
             "Tab", "KeyQ", "KeyW", "KeyE", "KeyR", "KeyT", "KeyY", "KeyU", "KeyI", "KeyO", "KeyP",
             "BracketLeft", "BracketRight", "Backslash",
             "CapsLock", "KeyA", "KeyS", "KeyD", "KeyF", "KeyG", "KeyH", "KeyJ", "KeyK", "KeyL",
             "Semicolon", "Quote", "Enter",
             "ShiftLeft", "KeyZ", "KeyX", "KeyC", "KeyV", "KeyB", "KeyN", "KeyM", "Comma", "Period",
             "Slash", "ShiftRight",
             "ControlLeft", "AltLeft", "MetaLeft", "Space", "MetaRight", "AltRight", "ArrowLeft",
             "ArrowUp", "ArrowDown", "ArrowRight">>
ValidKeys == {AllKeys[i] : i \in 1..Len(AllKeys)}
TotalKeys == Len(AllKeys)

Statuses == {"pending", "testing", "passed", "warning", "failed", "skipped"}
Final == {"passed", "warning", "failed", "skipped"}

\* mutant of InitSteps: the hardware entry starts out final
InitStepsHwDone == [i \in 1..N |-> IF i = 1 THEN "passed" ELSE "pending"]

InitSteps == [i \in 1..N |-> "pending"]

InitIR == [screen |-> [tested |-> FALSE, skipped |-> FALSE, hasDeadPixel |-> FALSE],
           keyboard |-> [tested |-> FALSE, skipped |-> FALSE, testedCount |-> 0, totalKeys |-> 78],
           trackpad |-> [tested |-> FALSE, skipped |-> FALSE, click |-> TRUE, drag |-> TRUE, gesture |-> TRUE],
           camera |-> [tested |-> FALSE, skipped |-> FALSE, working |-> TRUE],
           microphone |-> [tested |-> FALSE, skipped |-> FALSE, working |-> TRUE],
           speaker |-> [tested |-> FALSE, skipped |-> FALSE, left |-> TRUE, right |-> TRUE]]

NoHw == [present |-> FALSE]
NoBat == [present |-> FALSE, health |-> 0, cycle |-> 0]
NoSto == [present |-> FALSE, smart |-> <<>>]
NoRef == [present |-> FALSE, isRef |-> FALSE, inds |-> <<>>, parts |-> 0, program |-> FALSE]

(* Interactive test outcomes: one record shape for every test *)
OutDef == [kind |-> "complete", dead |-> FALSE, allPassed |-> TRUE, count |-> TotalKeys,
           pressed |-> ValidKeys, click |-> TRUE,
           drag |-> TRUE, gesture |-> TRUE, working |-> TRUE, button |-> "none",
           left |-> TRUE, right |-> TRUE]
Out(r) == r @@ OutDef

\* mutant of KeyboardResult: every distinct key pressed is counted, as in the
\* KeyboardTest variant that records e.key without a layout filter
KeyboardResultAnyKey(pressed) ==
  [allPassed |-> Cardinality(pressed) = TotalKeys, count |-> Cardinality(pressed),
   pressed |-> pressed]

\* KeyboardTest: handleKeyDown keeps only layout codes; handleFinish compares the
\* number of distinct recorded codes with TOTAL_KEYS
KeyboardResult(pressed) ==
  LET rec == pressed \cap ValidKeys
      testedCount == Cardinality({k \in rec : k \in ValidKeys})
  IN [allPassed |-> testedCount = TotalKeys, count |-> testedCount, pressed |-> pressed]

-----------------------------------------------------------------------------
(* Pure helpers *)
RemoveAt(s, k) == [j \in 1..(Len(s) - 1) |-> IF j < k THEN s[j] ELSE s[j + 1]]

Count(st, s) == Cardinality({i \in 1..N : st[i] = s})

\* mutant of NextStep: the loop index jumps over storage
NextStepSkipping(i) == IF i = 2 THEN 4 ELSE i + 1

NextStep(i) == i + 1

\* Math.round(((passed + warning * 0.5) / total) * 100); exact for total = 12
Score(p, w, total) == ((2 * p + w) * 100 + total) \div (2 * total)

\* strings are modelled as sequences of one-character strings
UpperCase == <<"A", "B", "C", "D", "E", "F", "G", "H", "I", "J", "K", "L", "M", "N", "O", "P", "Q", "R", "S", "T", "U", "V", "W", "X", "Y", "Z">>
LowerCase == <<"a", "b", "c", "d", "e", "f", "g", "h", "i", "j", "k", "l", "m", "n", "o", "p", "q", "r", "s", "t", "u", "v", "w", "x", "y", "z">>

\* String.prototype.toLowerCase on ASCII text
LowerChar(c) == IF \E k \in 1..Len(UpperCase) : UpperCase[k] = c
                THEN LowerCase[CHOOSE k \in 1..Len(UpperCase) : UpperCase[k] = c]
                ELSE c
SmartLower(s) == [k \in 1..Len(s) |-> LowerChar(s[k])]

\* String.prototype.includes
Includes(s, sub) == \E k \in 0..(Len(s) - Len(sub)) : SubSeq(s, k + 1, k + Len(sub)) = sub

\* storage.smart_status.toLowerCase().includes('verified') || ...includes('healthy')
SmartOk(s) == Includes(SmartLower(s), <<"v", "e", "r", "i", "f", "i", "e", "d">>) \/ Includes(SmartLower(s), <<"h", "e", "a", "l", "t", "h", "y">>)

\* SMART status strings
SmartVerified == <<"V", "e", "r", "i", "f", "i", "e", "d">>
SmartVerifiedLower == <<"v", "e", "r", "i", "f", "i", "e", "d">>
SmartHealthy == <<"H", "e", "a", "l", "t", "h", "y">>
SmartFailing == <<"F", "a", "i", "l", "i", "n", "g">>
SmartNotSupported == <<"N", "o", "t", " ", "S", "u", "p", "p", "o", "r", "t", "e", "d">>
SmartNotVerified == <<"N", "o", "t", " ", "V", "e", "r", "i", "f", "i", "e", "d">>
SmartUnhealthy == <<"U", "n", "h", "e", "a", "l", "t", "h", "y">>

\* Math.round of a health percentage given in tenths of a percent (h10 >= 0)
RoundPct(h10) == (h10 + 5) \div 10

BatteryStatus(h) == IF h >= 80 THEN "passed" ELSE IF h >= 60 THEN "warning" ELSE "failed"

\* mutant of WarnIndicators: only severity 'warning' is counted
WarnIndicatorsNoCritical(inds) == Len(SelectSeq(inds, LAMBDA x : x = "warning"))

\* refurb.indicators.filter(i => i.severity === 'warning' || i.severity === 'critical').length
WarnIndicators(inds) == Len(SelectSeq(inds, LAMBDA x : x \in {"warning", "critical"}))

-----------------------------------------------------------------------------
(* Report assembly (finishDetection) and issue collection (collectIssues) *)
Snap == [steps |-> steps, ir |-> ir, hw |-> hw, bat |-> bat, sto |-> sto, ref |-> ref]

MakeReport(s) ==
  LET p == Count(s.steps, "passed")
      w == Count(s.steps, "warning")
      f == Count(s.steps, "failed")
  IN [score |-> Score(p, w, N), passed |-> p, warning |-> w, failed |-> f,
      health |-> IF s.bat.present /\ s.bat.health # 0 THEN s.bat.health ELSE 1000,
      cycleCount |-> IF s.bat.present THEN s.bat.cycle ELSE 0,
      smartStatus |-> IF s.sto.present /\ s.sto.smart = SmartVerified THEN "healthy" ELSE "warning",
      interactive |-> s.ir,
      testedKeys |-> 0,
      refurb |-> s.ref]

\* mutant of CycleIssueLevel: 800 cycles already counts as failed
CycleIssueLevelGe(c) == IF c >= 800 THEN "failed" ELSE "warning"

\* collectIssues: level of the cycle-count issue
CycleIssueLevel(c) == IF c > 800 THEN "failed" ELSE "warning"

\* mutant of TrackpadFailures: the gesture check is left out
TrackpadFailuresNoGesture(tp) ==
  SelectSeq(<<IF tp.click THEN "" ELSE "click",
              IF tp.drag THEN "" ELSE "drag">>, LAMBDA x : x # "")

\* collectIssues: trackpadIssues, the failing trackpad functions in order
TrackpadFailures(tp) ==
  SelectSeq(<<IF tp.click THEN "" ELSE "click",
              IF tp.drag THEN "" ELSE "drag",
              IF tp.gesture THEN "" ELSE "gesture">>, LAMBDA x : x # "")

\* collectIssues: one IssueItem (category, kind of finding, level, detail)
Issue(c, k, l, d) == [cat |-> c, kind |-> k, level |-> l, detail |-> d]

\* mutant of RefurbIssues: the refurbishment-program issue comes before the parts
RefurbIssuesProgramFirst(rf) ==
  IF rf.present /\ rf.isRef
  THEN (IF rf.program THEN <<Issue("refurbishment", "program", "warning", <<>>)>> ELSE <<>>)
       \o [j \in 1..rf.parts |-> Issue("refurbishment", "part", "warning", <<>>)]
       \o LET ws == SelectSeq(rf.inds, LAMBDA x : x \in {"warning", "critical"})
          IN [j \in 1..Len(ws) |-> Issue("refurbishment", "indicator",
                                         IF ws[j] = "critical" THEN "failed" ELSE "warning", <<>>)]
  ELSE <<>>

\* mutant of RefurbIssues: critical indicators are reported as warnings
RefurbIssuesCriticalWarning(rf) ==
  IF rf.present /\ rf.isRef
  THEN [j \in 1..rf.parts |-> Issue("refurbishment", "part", "warning", <<>>)]
       \o (IF rf.program THEN <<Issue("refurbishment", "program", "warning", <<>>)>> ELSE <<>>)
       \o LET ws == SelectSeq(rf.inds, LAMBDA x : x \in {"warning", "critical"})
          IN [j \in 1..Len(ws) |-> Issue("refurbishment", "indicator", "warning", <<>>)]
  ELSE <<>>

RefurbIssues(rf) ==
  IF rf.present /\ rf.isRef
  THEN [j \in 1..rf.parts |-> Issue("refurbishment", "part", "warning", <<>>)]
       \o (IF rf.program THEN <<Issue("refurbishment", "program", "warning", <<>>)>> ELSE <<>>)
       \o LET ws == SelectSeq(rf.inds, LAMBDA x : x \in {"warning", "critical"})
          IN [j \in 1..Len(ws) |-> Issue("refurbishment", "indicator",
                                         IF ws[j] = "critical" THEN "failed" ELSE "warning", <<>>)]
  ELSE <<>>

Issues(r) ==
  LET it == r.interactive
      kbRatioBelow1 == IF it.keyboard.totalKeys > 0
                       THEN r.testedKeys < it.keyboard.totalKeys
                       ELSE FALSE
      tpFail == TrackpadFailures(it.trackpad)
      spFail == SelectSeq(<<IF it.speaker.left THEN "" ELSE "left channel",
                            IF it.speaker.right THEN "" ELSE "right channel">>, LAMBDA x : x # "")
  IN (IF r.health < 800
        THEN <<Issue("battery", "health", IF r.health < 600 THEN "failed" ELSE "warning", <<>>)>>
        ELSE <<>>)
     \o (IF r.cycleCount > 500
           THEN <<Issue("battery", "cycles", CycleIssueLevel(r.cycleCount), <<>>)>>
           ELSE <<>>)
     \o (IF r.smartStatus # "healthy" THEN <<Issue("storage", "smart", "failed", <<>>)>> ELSE <<>>)
     \o (IF it.screen.hasDeadPixel THEN <<Issue("screen", "deadPixel", "warning", <<>>)>> ELSE <<>>)
     \o (IF kbRatioBelow1 /\ it.keyboard.tested THEN <<Issue("keyboard", "partial", "warning", <<>>)>> ELSE <<>>)
     \o (IF it.trackpad.tested /\ Len(tpFail) > 0 THEN <<Issue("trackpad", "functions", "warning", tpFail)>> ELSE <<>>)
     \o (IF it.camera.tested /\ ~it.camera.working THEN <<Issue("camera", "notWorking", "failed", <<>>)>> ELSE <<>>)
     \o (IF it.microphone.tested /\ ~it.microphone.working THEN <<Issue("microphone", "notWorking", "failed", <<>>)>> ELSE <<>>)
     \o (IF it.speaker.tested /\ Len(spFail) > 0 THEN <<Issue("speaker", "channels", "warning", spFail)>> ELSE <<>>)
     \o RefurbIssues(r.refurb)

\* the issues of category c and kind k, in list order
IssuesOf(r, c, k) == SelectSeq(Issues(r), LAMBDA x : x.cat = c /\ x.kind = k)

-----------------------------------------------------------------------------
(* Step status rules *)

\* mutant of AutoResult: the per-probe try/catch blocks removed, so a failing
\* battery/storage/refurbishment/network probe reaches the outer catch ('failed')
AutoResultNoInnerCatch(i, o) ==
  LET d == [status |-> "passed", hw |-> hw, bat |-> bat, sto |-> sto, ref |-> ref]
  IN CASE StepIds[i] = "hardware" ->
            IF o = "ok" THEN [d EXCEPT !.hw = [present |-> TRUE]] ELSE [d EXCEPT !.status = "failed"]
       [] StepIds[i] = "battery" ->
            IF o.kind = "ok"
            THEN [d EXCEPT !.bat = [present |-> TRUE, health |-> o.health, cycle |-> o.cycle],
                           !.status = BatteryStatus(RoundPct(o.health))]
            ELSE [d EXCEPT !.status = "failed"]
       [] StepIds[i] = "storage" ->
            IF o.kind = "ok"
            THEN [d EXCEPT !.sto = [present |-> TRUE, smart |-> o.smart],
                           !.status = IF SmartOk(o.smart) THEN "passed" ELSE "warning"]
            ELSE [d EXCEPT !.status = "failed"]
       [] StepIds[i] = "refurbishment" ->
            IF o.kind = "ok"
            THEN [d EXCEPT !.ref = [present |-> TRUE, isRef |-> o.isRef, inds |-> o.inds,
                                    parts |-> o.parts, program |-> o.program],
                           !.status = IF o.isRef /\ WarnIndicators(o.inds) > 0 THEN "warning" ELSE "passed"]
            ELSE [d EXCEPT !.status = "failed"]
       [] StepIds[i] = "network" -> IF o = "ok" THEN d ELSE [d EXCEPT !.status = "failed"]
       [] OTHER -> d

\* runAutomaticDetection: result of the probe of automatic step i with outcome o
\* (a null or rejected probe result is any outcome whose kind is not "ok")
AutoResult(i, o) ==
  LET d == [status |-> "passed", hw |-> hw, bat |-> bat, sto |-> sto, ref |-> ref]
  IN CASE StepIds[i] = "hardware" ->
            IF o = "ok" THEN [d EXCEPT !.hw = [present |-> TRUE]] ELSE [d EXCEPT !.status = "failed"]
       [] StepIds[i] = "battery" ->
            IF o.kind = "ok"
            THEN [d EXCEPT !.bat = [present |-> TRUE, health |-> o.health, cycle |-> o.cycle],
                           !.status = BatteryStatus(RoundPct(o.health))]
            ELSE [d EXCEPT !.status = "warning"]
       [] StepIds[i] = "storage" ->
            IF o.kind = "ok"
            THEN [d EXCEPT !.sto = [present |-> TRUE, smart |-> o.smart],
                           !.status = IF SmartOk(o.smart) THEN "passed" ELSE "warning"]
            ELSE d
       [] StepIds[i] = "refurbishment" ->
            IF o.kind = "ok"
            THEN [d EXCEPT !.ref = [present |-> TRUE, isRef |-> o.isRef, inds |-> o.inds,
                                    parts |-> o.parts, program |-> o.program],
                           !.status = IF o.isRef /\ WarnIndicators(o.inds) > 0 THEN "warning" ELSE "passed"]
            ELSE d
       [] OTHER -> d   \* network (either outcome) and sensors: passed

\* mutant of CompleteStatus: a dead pixel fails the screen step
CompleteStatusDeadFailed(x, o) ==
  CASE x = "screen" -> IF o.dead THEN "failed" ELSE "passed"
    [] x = "keyboard" -> IF o.allPassed THEN "passed" ELSE "warning"
    [] x = "trackpad" -> IF o.click /\ o.drag /\ o.gesture THEN "passed" ELSE "warning"
    [] x = "camera" -> IF o.working THEN "passed" ELSE "failed"
    [] x = "microphone" -> IF o.working THEN "passed" ELSE "failed"
    [] x = "speaker" -> IF o.left /\ o.right THEN "passed" ELSE "warning"

\* handleTestComplete: status of interactive step x for outcome o
CompleteStatus(x, o) ==
  CASE x = "screen" -> IF o.dead THEN "warning" ELSE "passed"
    [] x = "keyboard" -> IF o.allPassed THEN "passed" ELSE "warning"
    [] x = "trackpad" -> IF o.click /\ o.drag /\ o.gesture THEN "passed" ELSE "warning"
    [] x = "camera" -> IF o.working THEN "passed" ELSE "failed"
    [] x = "microphone" -> IF o.working THEN "passed" ELSE "failed"
    [] x = "speaker" -> IF o.left /\ o.right THEN "passed" ELSE "warning"

\* handleTestComplete: interactiveResults update
CompleteIR(v, x, o) ==
  CASE x = "screen" -> [v EXCEPT !.screen.tested = TRUE, !.screen.hasDeadPixel = o.dead]
    [] x = "keyboard" -> [v EXCEPT !.keyboard.tested = TRUE, !.keyboard.testedCount = o.count,
                                   !.keyboard.totalKeys = TotalKeys]
    [] x = "trackpad" -> [v EXCEPT !.trackpad.tested = TRUE, !.trackpad.click = o.click,
                                   !.trackpad.drag = o.drag, !.trackpad.gesture = o.gesture]
    [] x = "camera" -> [v EXCEPT !.camera.tested = TRUE, !.camera.working = o.working]
    [] x = "microphone" -> [v EXCEPT !.microphone.tested = TRUE, !.microphone.working = o.working]
    [] x = "speaker" -> [v EXCEPT !.speaker.tested = TRUE, !.speaker.left = o.left, !.speaker.right = o.right]

\* handleTestSkip: interactiveResults update
SkipIR(v, x) == [v EXCEPT ![x].skipped = TRUE]

\* test components that wire a skip button to onSkip directly
\* (MicrophoneTest delays it by a timer; SpeakerTest takes no onSkip)
\* ledger written when the loop reaches interactive step j: setActiveTest only
\* mutant of Suspend: the step is marked testing as it is entered
SuspendTesting(st, j) == [st EXCEPT ![j] = "testing"]

Suspend(st, j) == st

DirectSkip == {"screen", "keyboard", "trackpad", "camera"}
DirectComplete == {"screen", "keyboard", "trackpad", "camera", "speaker"}


-----------------------------------------------------------------------------
(* State machine *)

\* a DetectionPage instance's setters take effect only while it is mounted
Alive(g) == page = "detection" /\ g = gen

Init ==
  /\ page = "home"
  /\ appReport = <<>>
  /\ emitted = <<>>
  /\ gen = 0
  /\ steps = InitSteps
  /\ isRunning = FALSE
  /\ currentStep = 0
  /\ activeTest = "none"
  /\ hw = NoHw
  /\ bat = NoBat
  /\ sto = NoSto
  /\ ref = NoRef
  /\ ir = InitIR
  /\ tasks = <<>>
  /\ micTimers = <<>>
  /\ lastSig = "none"
  /\ kbPressed = {}
  /\ spButton = "none"

\* App.handleStartDetection: mounts a fresh DetectionPage (at most max mounts)
GoDetectionUpTo(max) ==
  /\ page = "home"
  /\ gen < max
  /\ page' = "detection"
  /\ gen' = gen + 1
  /\ steps' = InitSteps
  /\ isRunning' = FALSE
  /\ currentStep' = 0
  /\ activeTest' = "none"
  /\ hw' = NoHw
  /\ bat' = NoBat
  /\ sto' = NoSto
  /\ ref' = NoRef
  /\ ir' = InitIR
  /\ lastSig' = "none"
  /\ kbPressed' = {}
  /\ spButton' = "none"
  /\ UNCHANGED <<appReport, emitted, tasks, micTimers>>

GoDetection == GoDetectionUpTo(MaxGen)

\* startDetection up to the first await (runAutomaticDetection('hardware'))
StartDetection ==
  /\ Alive(gen)
  /\ activeTest = "none"
  /\ ~isRunning
  /\ currentStep = 0
  /\ isRunning' = TRUE
  /\ currentStep' = 0
  /\ steps' = [steps EXCEPT ![1] = "testing"]
  /\ tasks' = Append(tasks, [g |-> gen, i |-> 1, pc |-> "probe", snap |-> Snap])
  /\ lastSig' = "none"
  /\ UNCHANGED <<page, appReport, emitted, gen, activeTest, hw, bat, sto, ref, ir, micTimers>>
  /\ UNCHANGED <<kbPressed, spButton>>

ProbeIn(In, i) ==
  CASE StepIds[i] = "hardware" -> In.hw
    [] StepIds[i] = "battery" -> In.bat
    [] StepIds[i] = "storage" -> In.sto
    [] StepIds[i] = "refurbishment" -> In.ref
    [] StepIds[i] = "network" -> In.net
    [] OTHER -> {"timer"}

\* the awaited probe (or the sensors 500 ms timer) of task k settles
ProbeResolve(In) ==
  /\ \E k \in 1..Len(tasks) :
    LET t == tasks[k] IN
    /\ t.pc = "probe"
    /\ \E o \in ProbeIn(In, t.i) :
         LET r == AutoResult(t.i, o)
             al == Alive(t.g)
         IN /\ steps' = IF al THEN [steps EXCEPT ![t.i] = r.status] ELSE steps
            /\ hw' = IF al THEN r.hw ELSE hw
            /\ bat' = IF al THEN r.bat ELSE bat
            /\ sto' = IF al THEN r.sto ELSE sto
            /\ ref' = IF al THEN r.ref ELSE ref
    /\ tasks' = [tasks EXCEPT ![k].pc = "delay"]
    /\ lastSig' = "none"
    /\ UNCHANGED <<page, appReport, emitted, gen, isRunning, currentStep, activeTest, ir, micTimers>>
  /\ UNCHANGED <<kbPressed, spButton>>

\* Date.now() at a report's assembly: the millisecond of the previous report or
\* a later one (abstracted to the next millisecond)
Clock(e) == IF Len(e) = 0 THEN {0} ELSE {e[Len(e)].at, e[Len(e)].at + 1}

\* finishDetection: id: Date.now().toString()
ReportId(now) == now

\* finishDetection run by task t (index k), then App.handleDetectionComplete
Finish(k, t) ==
  LET r == MakeReport(t.snap)
      al == Alive(t.g)
  IN /\ isRunning' = IF al THEN FALSE ELSE isRunning
     /\ \E now \in Clock(emitted) :
          emitted' = Append(emitted, [g |-> t.g, alive |-> al, report |-> r, id |-> ReportId(now),
                                      read |-> t.snap.steps, ledger |-> steps, at |-> now])
     /\ appReport' = IF page = "crashed" THEN appReport ELSE <<r>>
     /\ page' = IF page = "crashed" THEN page ELSE "report"
     /\ tasks' = RemoveAt(tasks, k)
     /\ UNCHANGED <<gen, steps, currentStep, activeTest, hw, bat, sto, ref, ir>>

\* the 300 ms inter-step timer of task k fires; the loop moves to the next step
DelayDone ==
  /\ \E k \in 1..Len(tasks) :
    LET t == tasks[k]
        j == NextStep(t.i)
        al == Alive(t.g)
    IN /\ t.pc = "delay"
       /\ lastSig' = "none"
       /\ UNCHANGED micTimers
       /\ IF j > N
            THEN Finish(k, t)
          ELSE IF IsInteractive(j)
            THEN /\ currentStep' = IF al THEN j - 1 ELSE currentStep
                 /\ activeTest' = IF al THEN StepIds[j] ELSE activeTest
                 /\ steps' = IF al THEN Suspend(steps, j) ELSE steps
                 /\ tasks' = RemoveAt(tasks, k)
                 /\ UNCHANGED <<page, appReport, emitted, gen, isRunning, hw, bat, sto, ref, ir>>
            ELSE /\ currentStep' = IF al THEN j - 1 ELSE currentStep
                 /\ steps' = IF al THEN [steps EXCEPT ![j] = "testing"] ELSE steps
                 /\ tasks' = [tasks EXCEPT ![k].i = j, ![k].pc = "probe"]
                 /\ UNCHANGED <<page, appReport, emitted, gen, isRunning, activeTest, hw, bat, sto, ref, ir>>
  /\ UNCHANGED <<kbPressed, spButton>>

\* StatusBadge: `const { icon: Icon, className } = config[status]` throws for a
\* status outside its config ('skipped'); with no error boundary the render of
\* the step list (activeTest null) unmounts the whole React root
BadgeStatuses == {"passed", "warning", "failed", "pending", "testing"}

ListCrashes(st) == \E i \in 1..N : st[i] \notin BadgeStatuses

\* handleTestComplete / handleTestSkip of mount g for test x, after its own
\* updates st1 / ir1, followed by continueFromNextStep(x) up to its first await
Resume(g, x, st1, ir1, snapv) ==
  LET j == NextStep(Idx(x))
      al == Alive(g)
  IN /\ lastSig' = x
     /\ ir' = IF al THEN ir1 ELSE ir
     /\ currentStep' = IF al THEN j - 1 ELSE currentStep
     /\ IF IsInteractive(j)
          THEN /\ steps' = IF al THEN Suspend(st1, j) ELSE steps
               /\ activeTest' = IF al THEN StepIds[j] ELSE activeTest
               /\ UNCHANGED tasks
          ELSE /\ steps' = IF al THEN [st1 EXCEPT ![j] = "testing"] ELSE steps
               /\ activeTest' = IF al THEN "none" ELSE activeTest
               /\ tasks' = Append(tasks, [g |-> g, i |-> j, pc |-> "probe", snap |-> snapv])
               /\ page' = IF al /\ ListCrashes(st1) THEN "crashed" ELSE page
     /\ IsInteractive(j) => UNCHANGED page
     /\ UNCHANGED <<appReport, emitted, gen, isRunning, hw, bat, sto, ref>>

\* onComplete of the rendered ScreenTest/KeyboardTest/TrackpadTest/CameraTest/SpeakerTest
TestComplete(In) ==
  \E x \in DirectComplete :
    /\ Alive(gen)
    /\ activeTest = x
    /\ \E o \in In[x] :
         /\ o.kind = "complete"
         /\ Resume(gen, x, [steps EXCEPT ![Idx(x)] = CompleteStatus(x, o)], CompleteIR(ir, x, o), Snap)
         /\ kbPressed' = IF x = "keyboard" THEN o.pressed ELSE kbPressed
         /\ spButton' = IF x = "speaker" THEN o.button ELSE spButton
    /\ UNCHANGED micTimers

\* onSkip of the rendered ScreenTest/KeyboardTest/TrackpadTest/CameraTest
TestSkip(In) ==
  /\ \E x \in DirectSkip :
    /\ Alive(gen)
    /\ activeTest = x
    /\ \E o \in In[x] : o.kind = "skip"
    /\ Resume(gen, x, [steps EXCEPT ![Idx(x)] = "skipped"], SkipIR(ir, x), Snap)
    /\ UNCHANGED micTimers
  /\ UNCHANGED <<kbPressed, spButton>>

\* MicrophoneTest normal / abnormal / skip button: cleanup(); setTimeout(cb, 50)
MicClick(In) ==
  /\ Alive(gen)
  /\ activeTest = "microphone"
  /\ Len(micTimers) < MaxMicTimers
  /\ \E o \in In.microphone :
       micTimers' = Append(micTimers, [g |-> gen, out |-> o, snap |-> Snap])
  /\ lastSig' = "none"
  /\ UNCHANGED <<page, appReport, emitted, gen, steps, isRunning, currentStep, activeTest,
                 hw, bat, sto, ref, ir, tasks>>
  /\ UNCHANGED <<kbPressed, spButton>>

\* the oldest MicrophoneTest timer fires: onComplete(working) or onSkip()
MicFire ==
  /\ Len(micTimers) > 0
  /\ LET m == Head(micTimers) IN
       IF m.out.kind = "complete"
         THEN Resume(m.g, "microphone",
                     [steps EXCEPT ![Idx("microphone")] = CompleteStatus("microphone", m.out)],
                     CompleteIR(ir, "microphone", m.out), m.snap)
         ELSE Resume(m.g, "microphone", [steps EXCEPT ![Idx("microphone")] = "skipped"],
                     SkipIR(ir, "microphone"), m.snap)
  /\ micTimers' = Tail(micTimers)
  /\ UNCHANGED <<kbPressed, spButton>>

\* DetectionPage back button (main view only) -> App.handleBackToHome
Back ==
  /\ Alive(gen)
  /\ activeTest = "none"
  /\ page' = "home"
  /\ appReport' = <<>>
  /\ lastSig' = "none"
  /\ UNCHANGED <<emitted, gen, steps, isRunning, currentStep, activeTest, hw, bat, sto, ref,
                 ir, tasks, micTimers>>
  /\ UNCHANGED <<kbPressed, spButton>>

\* ReportPage back button -> App.handleBackToHome
ReportBack ==
  /\ page = "report"
  /\ page' = "home"
  /\ appReport' = <<>>
  /\ lastSig' = "none"
  /\ UNCHANGED <<emitted, gen, steps, isRunning, currentStep, activeTest, hw, bat, sto, ref,
                 ir, tasks, micTimers>>
  /\ UNCHANGED <<kbPressed, spButton>>

Next(In) ==
  \/ GoDetection
  \/ StartDetection
  \/ ProbeResolve(In)
  \/ DelayDone
  \/ TestComplete(In)
  \/ TestSkip(In)
  \/ MicClick(In)
  \/ MicFire
  \/ Back
  \/ ReportBack

-----------------------------------------------------------------------------
(* Environment inputs: probe results and user outcomes *)

BatOk(h, c) == [kind |-> "ok", health |-> h, cycle |-> c]
BatFail == [kind |-> "fail", health |-> 0, cycle |-> 0]
BatNull == [kind |-> "null", health |-> 0, cycle |-> 0]
StoOk(s) == [kind |-> "ok", smart |-> s]
StoFail == [kind |-> "fail", smart |-> <<>>]
RefOk(r, is, ps, pg) == [kind |-> "ok", isRef |-> r, inds |-> is, parts |-> ps, program |-> pg]
RefFail == [kind |-> "fail", isRef |-> FALSE, inds |-> <<>>, parts |-> 0, program |-> FALSE]
StoNull == [kind |-> "null", smart |-> <<>>]
RefNull == [kind |-> "null", isRef |-> FALSE, inds |-> <<>>, parts |-> 0, program |-> FALSE]

Skip == Out([kind |-> "skip"])

\* SpeakerTest: 'both normal' reports both channels true; 'has issue' reports
\* whether each channel's test sound was played (leftTested, rightTested)
SpeakerResult(button, leftTested, rightTested) ==
  IF button = "both"
  THEN Out([button |-> "both", left |-> TRUE, right |-> TRUE])
  ELSE Out([button |-> "issue", left |-> leftTested, right |-> rightTested])

\* inputs of Spec: one result per probe, both test-callback kinds
InMain ==
  [hw |-> {"ok"},
   bat |-> {BatOk(850, 400)},
   sto |-> {StoOk(SmartVerified)},
   ref |-> {RefOk(FALSE, <<>>, 0, FALSE)},
   net |-> {"ok"},
   screen |-> {Out([dead |-> FALSE]), Skip},
   keyboard |-> {Out(KeyboardResult(ValidKeys))},
   trackpad |-> {Out([click |-> TRUE])},
   camera |-> {Out([working |-> TRUE])},
   microphone |-> {Out([working |-> TRUE]), Out([working |-> FALSE])},
   speaker |-> {Out([button |-> "both"])}]

Spec == Init /\ [][Next(InMain)]_vars

\* inputs of SpecSeq: the step loop with one outcome per test callback (the
\* screen test may also be skipped)
InSeq == [InMain EXCEPT !.microphone = {Out([working |-> TRUE])}]

SpecSeq == Init /\ [][Next(InSeq)]_vars

\* state right after App.handleStartDetection and a click on the start button
\* (GoDetection then StartDetection from Init)
InitAuto ==
  /\ page = "detection"
  /\ appReport = <<>>
  /\ emitted = <<>>
  /\ gen = 1
  /\ steps = [InitSteps EXCEPT ![1] = "testing"]
  /\ isRunning = TRUE
  /\ currentStep = 0
  /\ activeTest = "none"
  /\ hw = NoHw
  /\ bat = NoBat
  /\ sto = NoSto
  /\ ref = NoRef
  /\ ir = InitIR
  /\ tasks = <<[g |-> 1, i |-> 1, pc |-> "probe",
                snap |-> [steps |-> InitSteps, ir |-> InitIR, hw |-> NoHw, bat |-> NoBat,
                          sto |-> NoSto, ref |-> NoRef]]>>
  /\ micTimers = <<>>
  /\ lastSig = "none"
  /\ kbPressed = {}
  /\ spButton = "none"

\* the automatic part of a run: probes and inter-step timers up to the screen test
NextAuto(In) ==
  \/ ProbeResolve(In)
  \/ DelayDone

\* inputs of SpecProbeFail: every probe may succeed, reject or return null
InProbeFail ==
  [InMain EXCEPT !.hw = {"ok", "fail"},
                 !.bat = {BatOk(850, 400), BatFail, BatNull},
                 !.sto = {StoOk(SmartVerified), StoOk(SmartFailing), StoFail, StoNull},
                 !.ref = {RefOk(FALSE, <<>>, 0, FALSE), RefOk(TRUE, <<"warning">>, 0, FALSE),
                          RefFail, RefNull},
                 !.net = {"ok", "fail"}]

SpecProbeFail == InitAuto /\ [][NextAuto(InProbeFail)]_vars

\* health readings in tenths of a percent around the 80 / 60 thresholds
BatteryHealths == {850, 800, 795, 790, 750, 600, 595, 590, 550}

\* inputs of SpecBattery: battery readings, rejection and null
InBattery ==
  [InMain EXCEPT !.hw = {"ok", "fail"},
                 !.bat = {BatOk(h, 400) : h \in BatteryHealths} \cup {BatFail, BatNull}]

SpecBattery == InitAuto /\ [][NextAuto(InBattery)]_vars

\* SMART status strings a storage probe may report
SmartStrings == {SmartVerified, SmartVerifiedLower, SmartHealthy, SmartFailing,
                 SmartNotSupported, SmartNotVerified, SmartUnhealthy}

\* inputs of SpecStorage: SMART readings, rejection and null
InStorage ==
  [InMain EXCEPT !.hw = {"ok", "fail"},
                 !.sto = {StoOk(x) : x \in SmartStrings} \cup {StoFail, StoNull}]

SpecStorage == InitAuto /\ [][NextAuto(InStorage)]_vars

\* indicator severity lists of a refurbishment report
IndicatorLists == {<<>>, <<"info">>, <<"warning">>, <<"critical">>, <<"info", "info">>,
                   <<"info", "critical">>, <<"warning", "critical">>}

\* inputs of SpecRefurb: refurbishment reports, rejection and null
InRefurb ==
  [InMain EXCEPT !.hw = {"ok", "fail"},
                 !.ref = {RefOk(r, is, 0, FALSE) : r \in BOOLEAN, is \in IndicatorLists}
                           \cup {RefFail, RefNull}]

SpecRefurb == InitAuto /\ [][NextAuto(InRefurb)]_vars

\* keys a user may press in the keyboard test: layout codes with one or two
\* missing, plus codes outside the layout
KbPressSets == {ValidKeys, ValidKeys \ {"KeyQ"}, ValidKeys \cup {"Fn"},
                (ValidKeys \ {"KeyQ"}) \cup {"Fn"},
                (ValidKeys \ {"KeyQ", "Space"}) \cup {"Fn", "NumpadEnter"}, {"Fn"}, {}}

\* inputs of SpecKeyboard: the run up to the microphone test
InKeyboard ==
  [InMain EXCEPT !.hw = {"ok", "fail"},
                 !.screen = {Out([dead |-> FALSE]), Skip},
                 !.keyboard = {Out(KeyboardResult(p)) : p \in KbPressSets} \cup {Skip},
                 !.trackpad = {Out([click |-> TRUE])},
                 !.camera = {Out([working |-> TRUE])}]

\* the run from the start button up to the microphone test
NextKeyboard(In) ==
  \/ ProbeResolve(In)
  \/ DelayDone
  \/ TestComplete(In)
  \/ TestSkip(In)

SpecKeyboard == InitAuto /\ [][NextKeyboard(InKeyboard)]_vars

\* a whole run from the start button to finishDetection and onComplete
NextRun(In) ==
  \/ ProbeResolve(In)
  \/ DelayDone
  \/ TestComplete(In)
  \/ TestSkip(In)
  \/ MicClick(In)
  \/ MicFire

\* one outcome per test callback (the screen test may also be skipped)
InRun ==
  [InMain EXCEPT !.screen = {Out([dead |-> FALSE]), Skip},
                 !.microphone = {Out([working |-> TRUE])}]

\* inputs of SpecRestart: one passing outcome per test callback
InRestart == [InRun EXCEPT !.screen = {Out([dead |-> FALSE])}]

\* a run after start in which the user may go back to the home page, open
\* the detection page again and press start, then view the report and go back
NextRestart(In) ==
  \/ ProbeResolve(In)
  \/ DelayDone
  \/ TestComplete(In)
  \/ MicClick(In)
  \/ MicFire
  \/ Back
  \/ GoDetectionUpTo(MaxRestarts)
  \/ StartDetection
  \/ ReportBack

SpecRestart == InitAuto /\ [][NextRestart(InRestart)]_vars

\* battery health readings (tenths of a percent) including the falsy 0
RunHealths == {0, 550, 750, 850}

\* inputs of SpecBatteryReport: battery readings and a null probe result
InBatteryReport ==
  [InRun EXCEPT !.bat = {BatOk(h, 400) : h \in RunHealths} \cup {BatNull}]

SpecBatteryReport == InitAuto /\ [][NextRun(InBatteryReport)]_vars

\* battery cycle counts around the 500 / 800 thresholds
RunCycles == {0, 400, 500, 501, 600, 800, 801, 850}

\* inputs of SpecCycleReport: battery cycle counts and a null probe result
InCycleReport ==
  [InRun EXCEPT !.bat = {BatOk(850, c) : c \in RunCycles} \cup {BatNull}]

SpecCycleReport == InitAuto /\ [][NextRun(InCycleReport)]_vars

\* inputs of SpecBatteryAgree: fractional readings near 80 / 60 and a rejected probe
InBatteryAgree ==
  [InRun EXCEPT !.bat = {BatOk(h, 400) : h \in {850, 795, 750, 595}} \cup {BatFail}]

SpecBatteryAgree == InitAuto /\ [][NextRun(InBatteryAgree)]_vars

\* inputs of SpecStorageReport: SMART readings and a null probe result
InStorageReport ==
  [InRun EXCEPT !.sto = {StoOk(SmartVerified), StoOk(SmartHealthy), StoOk(SmartFailing), StoNull}]

SpecStorageReport == InitAuto /\ [][NextRun(InStorageReport)]_vars

\* inputs of SpecScreenReport: dead pixel found, none found, or skipped
InScreenReport ==
  [InRun EXCEPT !.screen = {Out([dead |-> TRUE]), Out([dead |-> FALSE]), Skip}]

SpecScreenReport == InitAuto /\ [][NextRun(InScreenReport)]_vars

\* inputs of SpecKeyboardReport: all layout keys, one missing, or skipped
InKeyboardReport ==
  [InRun EXCEPT !.keyboard = {Out(KeyboardResult(ValidKeys)),
                              Out(KeyboardResult(ValidKeys \ {"KeyQ"})), Skip}]

SpecKeyboardReport == InitAuto /\ [][NextRun(InKeyboardReport)]_vars

\* inputs of SpecTrackpadReport: every click/drag/gesture outcome, or skipped
InTrackpadReport ==
  [InRun EXCEPT !.trackpad = {Out([click |-> c, drag |-> d, gesture |-> g]) :
                                c, d, g \in BOOLEAN} \cup {Skip}]

SpecTrackpadReport == InitAuto /\ [][NextRun(InTrackpadReport)]_vars

\* inputs of SpecDeviceReport: camera and microphone working, not working or skipped
InDeviceReport ==
  [InRun EXCEPT !.camera = {Out([working |-> TRUE]), Out([working |-> FALSE]), Skip},
                !.microphone = {Out([working |-> TRUE]), Out([working |-> FALSE]), Skip}]

SpecDeviceReport == InitAuto /\ [][NextRun(InDeviceReport)]_vars

\* inputs of SpecSpeakerReport: every left/right outcome of SpeakerTest
InSpeakerReport ==
  [InRun EXCEPT !.speaker = {Out([left |-> l, right |-> r]) : l, r \in BOOLEAN}]

SpecSpeakerReport == InitAuto /\ [][NextRun(InSpeakerReport)]_vars

\* inputs of SpecSpeakerButtons: either SpeakerTest button after any channels played
InSpeakerButtons ==
  [InRun EXCEPT !.speaker = {SpeakerResult(b, l, r) : b \in {"both", "issue"}, l, r \in BOOLEAN}]

SpecSpeakerButtons == InitAuto /\ [][NextRun(InSpeakerButtons)]_vars

\* replaced-part counts of a refurbishment report
MaxParts == 2

\* inputs of SpecRefurbReport: refurbishment reports with parts, program and indicators
InRefurbReport ==
  [InRun EXCEPT !.ref = {RefOk(r, is, ps, pg) :
                           r \in BOOLEAN,
                           is \in {<<>>, <<"info", "critical">>, <<"critical", "warning", "info">>},
                           ps \in 0..MaxParts, pg \in BOOLEAN} \cup {RefNull}]

SpecRefurbReport == InitAuto /\ [][NextRun(InRefurbReport)]_vars

\* inputs of SpecIssueOrder: outcomes that raise an issue in every category
InIssueOrder ==
  [InRun EXCEPT !.bat = {BatOk(550, 850), BatOk(850, 400)},
                !.sto = {StoOk(SmartFailing)},
                !.ref = {RefOk(TRUE, <<"critical", "info", "warning">>, 1, TRUE)},
                !.screen = {Out([dead |-> TRUE]), Skip},
                !.trackpad = {Out([click |-> FALSE, drag |-> TRUE, gesture |-> FALSE])},
                !.camera = {Out([working |-> FALSE]), Out([working |-> TRUE])},
                !.microphone = {Out([working |-> FALSE])},
                !.speaker = {Out([left |-> FALSE, right |-> TRUE])}]

SpecIssueOrder == InitAuto /\ [][NextRun(InIssueOrder)]_vars

\* inputs of SpecLive: every test may complete or be skipped
InLive ==
  [InRun EXCEPT !.keyboard = {Out(KeyboardResult(ValidKeys)), Skip},
                !.microphone = {Out([working |-> TRUE]), Out([working |-> FALSE]), Skip}]

\* a run after start in which probes settle, timers fire and the user answers
\* every test that is shown
SpecLive == InitAuto /\ [][NextRun(InLive)]_vars /\ WF_vars(NextRun(InLive))


-----------------------------------------------------------------------------
(* Properties *)

\* C1: a run that reaches an interactive step suspends there (activeTest is
\* always an interactive step); while suspended at x, no later step's ledger
\* entry changes and the run emits no report until a signal for x arrives.
C1_Suspension ==
  [][ /\ activeTest \in {"none"} \cup InteractiveIds
      /\ (Alive(gen) /\ activeTest # "none" /\ lastSig' # activeTest)
           => /\ \A j \in (Idx(activeTest) + 1)..N : steps'[j] = steps[j]
              /\ \A k \in (Len(emitted) + 1)..Len(emitted') : emitted'[k].g # gen ]_vars

\* C2: the ledger splits into the status counts, and the ledger read by
\* score and report assembly has no step pending or testing.
C2_LedgerAccounting ==
  /\ Count(steps, "passed") + Count(steps, "warning") + Count(steps, "failed")
       + Count(steps, "skipped") + Count(steps, "pending") + Count(steps, "testing") = N
  /\ \A k \in 1..Len(emitted) : \A i \in 1..N : emitted[k].read[i] \notin {"pending", "testing"}

\* C3: every report's overallScore is round((passed + 0.5 * warning) / 12 * 100)
\* over the final ledger of its run, an integer in [0, 100].
C3_Score ==
  \A k \in 1..Len(emitted) :
    emitted[k].alive =>
      LET l == emitted[k].ledger IN
      /\ emitted[k].report.score = Score(Count(l, "passed"), Count(l, "warning"), N)
      /\ emitted[k].report.score \in 0..100

\* C4: a run whose probes all succeed and whose interactive steps all pass
\* (final ledger all passed) emits a report with score 100 and no issue.
C4_AllPassReport ==
  \A k \in 1..Len(emitted) :
    (emitted[k].alive /\ \A i \in 1..N : emitted[k].ledger[i] = "passed")
      => /\ emitted[k].report.score = 100
         /\ Issues(emitted[k].report) = <<>>

\* C5: a test signal for a step other than the one the run is suspended at
\* leaves the ledger and the interactive results unchanged.
C5_MismatchedResume ==
  [][ (Alive(gen) /\ activeTest # "none" /\ lastSig' \notin {"none", activeTest})
        => (steps' = steps /\ ir' = ir) ]_vars

\* C6: a duplicate or late signal for a step that was already resumed (the run
\* is not suspended at it) does not mutate the ledger.
C6_LateSignal ==
  [][ (Alive(gen) /\ lastSig' # "none" /\ activeTest # lastSig'
       /\ steps[Idx(lastSig')] \in Final)
        => steps' = steps ]_vars

\* C7: each run assembles and emits at most one report, and only after its
\* last step (sensors) has reached a final status.
C7_ExactlyOnce ==
  \A k1, k2 \in 1..Len(emitted) :
    /\ k1 # k2 => emitted[k1].g # emitted[k2].g
    /\ emitted[k1].alive => emitted[k1].ledger[N] \in Final

\* C8: every interactive step the run suspends at offers a skip signal.
C8_SkipEverywhere ==
  (Alive(gen) /\ activeTest # "none") => activeTest \in DirectSkip \cup {"microphone"}

\* C9: a run abandoned with the back button never emits a report (only the
\* mounted run's continuations reach onComplete).
C9_Cancellation ==
  \A k \in 1..Len(emitted) : emitted[k].alive

C11_ProbeFallback ==
  Alive(gen) =>
    /\ (steps[Idx("battery")] \in Final /\ ~bat.present) => steps[Idx("battery")] = "warning"
    /\ (steps[Idx("storage")] \in Final /\ ~sto.present) => steps[Idx("storage")] = "passed"
    /\ (steps[Idx("refurbishment")] \in Final /\ ~ref.present) => steps[Idx("refurbishment")] = "passed"
    /\ steps[Idx("network")] \in Final => steps[Idx("network")] = "passed"
    /\ (isRunning /\ activeTest = "none") => \E k \in 1..Len(tasks) : tasks[k].g = gen

C11_Witness ==
  /\ Alive(gen) /\ activeTest = "screen"
  /\ ~bat.present /\ ~sto.present /\ ~ref.present /\ steps[Idx("hardware")] = "failed"

\* C12 (as stated): the step the run is suspended at has status testing.
C12_SuspendedTesting ==
  (Alive(gen) /\ activeTest # "none") => steps[Idx(activeTest)] = "testing"

\* C12 (as the code does it): entering an interactive step only sets
\* activeTest; its ledger status is left as it was (pending on first entry), so
\* no interactive step is ever testing and the suspended step is pending or final.
C12_SuspendedPending ==
  Alive(gen) =>
    /\ \A i \in 1..N : IsInteractive(i) => steps[i] # "testing"
    /\ activeTest # "none" => steps[Idx(activeTest)] \in {"pending"} \cup Final

C12_Witness == Alive(gen) /\ activeTest = "screen" /\ steps[Idx("screen")] = "pending"

\* C13: start only takes effect from idle, so the step loops in flight at any
\* time all belong to one run (one DetectionPage mount).
C13_SingleLoop ==
  Cardinality({tasks[k].g : k \in 1..Len(tasks)}) <= 1

\* C14: within a run a step's status only moves pending -> testing,
\* testing -> final, or final -> testing (re-entry); it never returns to
\* pending and never moves from one final status to another.
C14_Monotonic ==
  [][ gen' = gen =>
        \A i \in 1..N :
          \/ steps'[i] = steps[i]
          \/ steps[i] = "pending" /\ steps'[i] = "testing"
          \/ steps[i] = "testing" /\ steps'[i] \in Final
          \/ steps[i] \in Final /\ steps'[i] = "testing" ]_vars

\* C15: each raw-data category (hardware, battery, storage, refurbishment and
\* each interactive outcome) is written at most once per run: it changes only
\* while it still holds its initial value.
C15_WriteOnce ==
  [][ gen' = gen =>
        /\ hw' # hw => hw = NoHw
        /\ bat' # bat => bat = NoBat
        /\ sto' # sto => sto = NoSto
        /\ ref' # ref => ref = NoRef
        /\ \A x \in InteractiveIds : ir'[x] # ir[x] => ir[x] = InitIR[x] ]_vars

\* C16: the ledger always holds exactly one entry per catalog step, in catalog
\* order, each with a valid status, and every entry is pending before the
\* mounted run's first step starts.
C16_CompleteLedger ==
  /\ DOMAIN steps = 1..N
  /\ \A i \in 1..N : steps[i] \in Statuses
  /\ Len(StepIds) = 12
  /\ (Alive(gen) /\ ~isRunning) => \A i \in 1..N : steps[i] = "pending"

C16_Witness == Alive(gen) /\ ~isRunning /\ currentStep = 0 /\ steps = InitSteps

\* C17: the battery step is passed for health >= 80, warning for
\* 60 <= health < 80 and failed for health < 60 (health in tenths here); it is
\* warning when the probe fails or returns nothing.
C17_BatteryStatus ==
  (Alive(gen) /\ steps[Idx("battery")] \in Final) =>
    steps[Idx("battery")] =
      IF bat.present
      THEN IF bat.health >= 800 THEN "passed" ELSE IF bat.health >= 600 THEN "warning" ELSE "failed"
      ELSE "warning"

\* the SMART strings the claim counts as a healthy / verified disk (the claim's
\* expectation; the storage step itself uses SmartOk)
IndicatesHealthy == {SmartVerified, SmartVerifiedLower, SmartHealthy}

\* C18: the storage step is passed when the SMART status indicates
\* healthy/verified, warning for any other SMART status, and passed when the
\* probe fails or returns nothing.
C18_StorageStatus ==
  (Alive(gen) /\ steps[Idx("storage")] \in Final) =>
    steps[Idx("storage")] =
      IF sto.present
      THEN IF sto.smart \in IndicatesHealthy THEN "passed" ELSE "warning"
      ELSE "passed"

\* C19: the refurbishment step is passed when not refurbished, passed when
\* refurbished with no warning/critical indicator, warning when refurbished
\* with at least one, and passed when the probe fails.
C19_RefurbStatus ==
  (Alive(gen) /\ steps[Idx("refurbishment")] \in Final) =>
    steps[Idx("refurbishment")] =
      IF ref.present /\ ref.isRef
         /\ \E k \in 1..Len(ref.inds) : ref.inds[k] \in {"warning", "critical"}
      THEN "warning"
      ELSE "passed"

C19_Witness ==
  /\ Alive(gen) /\ ref.present /\ ref.isRef /\ ref.inds = <<"info", "critical">>
  /\ steps[Idx("refurbishment")] = "warning"

\* C20: the keyboard step is passed exactly when every layout key was
\* registered and warning otherwise; keys outside the layout neither complete
\* nor spoil the test.
C20_KeyboardStatus ==
  (Alive(gen) /\ ir.keyboard.tested) =>
    steps[Idx("keyboard")] = IF ValidKeys \subseteq kbPressed THEN "passed" ELSE "warning"

C20_Witness ==
  /\ Alive(gen) /\ ir.keyboard.tested
  /\ kbPressed = (ValidKeys \ {"KeyQ"}) \cup {"Fn"}
  /\ steps[Idx("keyboard")] = "warning"

\* C21: a report has a battery-health issue iff the measured health is below
\* 80 (800 tenths), of severity warning for health >= 60 and failed below 60.
C21_BatteryHealthIssue ==
  \A k \in 1..Len(emitted) :
    LET is == IssuesOf(emitted[k].report, "battery", "health") IN
    IF bat.present /\ bat.health < 800
    THEN Len(is) = 1 /\ is[1].level = (IF bat.health >= 600 THEN "warning" ELSE "failed")
    ELSE Len(is) = 0

\* C22: a report has a cycle-count issue iff the cycle count exceeds 500, of
\* severity warning up to 800 and failed above 800.
C22_CycleIssue ==
  \A k \in 1..Len(emitted) :
    LET is == IssuesOf(emitted[k].report, "battery", "cycles") IN
    IF bat.present /\ bat.cycle > 500
    THEN Len(is) = 1 /\ is[1].level = (IF bat.cycle <= 800 THEN "warning" ELSE "failed")
    ELSE Len(is) = 0

C22_Witness ==
  /\ Len(emitted) = 1 /\ bat.cycle = 800
  /\ IssuesOf(emitted[1].report, "battery", "cycles")[1].level = "warning"

\* C23: when a SMART status was measured, the report has a storage issue,
\* always of severity failed, iff that status is not healthy/verified.
C23_StorageIssue ==
  \A k \in 1..Len(emitted) :
    LET is == IssuesOf(emitted[k].report, "storage", "smart") IN
    sto.present =>
      IF sto.smart \in IndicatesHealthy
      THEN Len(is) = 0
      ELSE Len(is) = 1 /\ is[1].level = "failed"

\* C24: a completed screen test reporting a dead pixel gives the screen step
\* warning and exactly one screen issue of severity warning; no dead pixel
\* gives passed and no screen issue.
C24_ScreenOutcome ==
  ir.screen.tested =>
    /\ steps[Idx("screen")] = IF ir.screen.hasDeadPixel THEN "warning" ELSE "passed"
    /\ \A k \in 1..Len(emitted) :
         LET is == IssuesOf(emitted[k].report, "screen", "deadPixel") IN
         IF ir.screen.hasDeadPixel
         THEN Len(is) = 1 /\ is[1].level = "warning"
         ELSE Len(is) = 0

C24_Witness ==
  /\ ir.screen.tested /\ ir.screen.hasDeadPixel /\ Len(emitted) = 1
  /\ Len(IssuesOf(emitted[1].report, "screen", "deadPixel")) = 1

\* C25: a report has a keyboard warning issue iff the keyboard step was tested
\* (not skipped) and fewer keys were registered than the layout has; a test
\* with every key registered gives no keyboard issue.
C25_KeyboardIssue ==
  \A k \in 1..Len(emitted) :
    Len(IssuesOf(emitted[k].report, "keyboard", "partial")) =
      IF ir.keyboard.tested /\ ~ir.keyboard.skipped
         /\ ir.keyboard.testedCount < ir.keyboard.totalKeys
      THEN 1 ELSE 0

\* C26: the trackpad step is passed iff click, drag and gesture all pass, else
\* warning; a tested trackpad with failing functions gives exactly one warning
\* issue naming exactly those functions; an untested or skipped one gives none.
C26_TrackpadOutcome ==
  LET tp == ir.trackpad
      failing == {f \in {"click", "drag", "gesture"} : ~tp[f]}
  IN /\ tp.tested =>
          steps[Idx("trackpad")] = IF failing = {} THEN "passed" ELSE "warning"
     /\ \A k \in 1..Len(emitted) :
          LET is == IssuesOf(emitted[k].report, "trackpad", "functions") IN
          IF tp.tested /\ failing # {}
          THEN /\ Len(is) = 1 /\ is[1].level = "warning"
               /\ Len(is[1].detail) = Cardinality(failing)
               /\ {is[1].detail[j] : j \in 1..Len(is[1].detail)} = failing
          ELSE Len(is) = 0

C26_Witness ==
  /\ ir.trackpad.tested /\ ~ir.trackpad.drag /\ ~ir.trackpad.gesture /\ ir.trackpad.click
  /\ Len(emitted) = 1

\* C27: a completed camera or microphone test reporting not working sets its
\* step to failed and gives one failed issue of that category; working gives
\* passed and no issue; a skipped test gives no issue.
C27_DeviceOutcome ==
  \A x \in {"camera", "microphone"} :
    /\ (ir[x].tested /\ ~ir[x].skipped) =>
         steps[Idx(x)] = IF ir[x].working THEN "passed" ELSE "failed"
    /\ \A k \in 1..Len(emitted) :
         LET is == IssuesOf(emitted[k].report, x, "notWorking") IN
         IF ir[x].tested /\ ~ir[x].working
         THEN Len(is) = 1 /\ is[1].level = "failed"
         ELSE Len(is) = 0

\* C28: a speaker test completing with a false channel gives the speaker step
\* warning and one warning speaker issue in the final report naming exactly
\* the failing channel(s); both channels true gives passed and no issue.
C28_SpeakerOutcome ==
  LET sp == ir.speaker
      failing == {c \in {"left", "right"} : ~sp[c]}
      names == [c \in {"left", "right"} |-> c \o " channel"]
  IN /\ sp.tested =>
          steps[Idx("speaker")] = IF failing = {} THEN "passed" ELSE "warning"
     /\ \A k \in 1..Len(emitted) :
          LET is == IssuesOf(emitted[k].report, "speaker", "channels") IN
          IF sp.tested /\ failing # {}
          THEN /\ Len(is) = 1 /\ is[1].level = "warning"
               /\ {is[1].detail[j] : j \in 1..Len(is[1].detail)} = {names[c] : c \in failing}
               /\ Len(is[1].detail) = Cardinality(failing)
          ELSE Len(is) = 0

\* the refurbishment issues of report r as <<kind, level>> pairs, in order
RefurbPairs(r) ==
  LET all == SelectSeq(Issues(r), LAMBDA x : x.cat = "refurbishment")
  IN [j \in 1..Len(all) |-> <<all[j].kind, all[j].level>>]

\* the refurbishment issues the spec lists for a measured report rf
ExpectedRefurb(rf) ==
  LET ws == SelectSeq(rf.inds, LAMBDA x : x # "info")
  IN [j \in 1..rf.parts |-> <<"part", "warning">>]
     \o (IF rf.program THEN <<<<"program", "warning">>>> ELSE <<>>)
     \o [j \in 1..Len(ws) |-> <<"indicator", IF ws[j] = "critical" THEN "failed" ELSE "warning">>]

\* C29 (as stated): every measured refurbishment report gives one warning issue
\* per replaced part, then one for a refurbishment program, then one per
\* warning (warning) or critical (failed) indicator; info gives none.
C29_RefurbIssuesAlways ==
  \A k \in 1..Len(emitted) : ref.present => RefurbPairs(emitted[k].report) = ExpectedRefurb(ref)

\* C29 (as the code does it): those issues are produced only when the report
\* says the device is refurbished; otherwise there is no refurbishment issue.
C29_RefurbIssues ==
  \A k \in 1..Len(emitted) :
    RefurbPairs(emitted[k].report) =
      IF ref.present /\ ref.isRef THEN ExpectedRefurb(ref) ELSE <<>>

C29_Witness ==
  /\ Len(emitted) = 1 /\ ref.isRef /\ ref.parts = MaxParts /\ ref.program
  /\ ref.inds = <<"critical", "warning", "info">>

\* position of an issue in the category order the spec lists
IssueRank(x) ==
  CASE x.cat = "battery" /\ x.kind = "health" -> 1
    [] x.cat = "battery" /\ x.kind = "cycles" -> 2
    [] x.cat = "storage" -> 3
    [] x.cat = "screen" -> 4
    [] x.cat = "keyboard" -> 5
    [] x.cat = "trackpad" -> 6
    [] x.cat = "camera" -> 7
    [] x.cat = "microphone" -> 8
    [] x.cat = "speaker" -> 9
    [] x.kind = "part" -> 10
    [] x.kind = "program" -> 11
    [] x.kind = "indicator" -> 12

\* an issue list in the fixed order whose indicator issues follow the
\* warning/critical indicators of rf in order
OrderedIssues(is, rf) ==
  /\ \A i, j \in 1..Len(is) : i < j => IssueRank(is[i]) <= IssueRank(is[j])
  /\ LET ind == SelectSeq(is, LAMBDA x : x.kind = "indicator")
         ws == SelectSeq(rf.inds, LAMBDA x : x # "info")
     IN rf.isRef => /\ Len(ind) = Len(ws)
                    /\ \A j \in 1..Len(ind) :
                         ind[j].level = IF ws[j] = "critical" THEN "failed" ELSE "warning"

\* C30: the issue list follows the fixed category order battery health, cycle
\* count, storage, screen, keyboard, trackpad, camera, microphone, speaker,
\* replaced parts, certified program, then warning/critical indicators in
\* indicator order; checked on every emitted report and on the report with the
\* run's final interactive results (where the speaker issue is present).
C30_IssueOrder ==
  \A k \in 1..Len(emitted) :
    /\ OrderedIssues(Issues(emitted[k].report), ref)
    /\ OrderedIssues(Issues([emitted[k].report EXCEPT !.interactive = ir]), ref)

C30_Witness ==
  /\ Len(emitted) = 1
  /\ Len(Issues([emitted[1].report EXCEPT !.interactive = ir])) = 13

\* C32: in every emitted report overallScore is an integer in [0, 100] and the
\* summary counts are non-negative integers summing to the 12 steps.
C32_ReportCounts ==
  \A k \in 1..Len(emitted) :
    LET r == emitted[k].report IN
    /\ r.score \in 0..100
    /\ r.passed >= 0 /\ r.warning >= 0 /\ r.failed >= 0
    /\ r.passed + r.warning + r.failed = N

\* C33: every assembled report has an identity distinct from every report
\* assembled before it.
C33_UniqueId ==
  \A k1, k2 \in 1..Len(emitted) : k1 # k2 => emitted[k1].id # emitted[k2].id

\* C34: under fairness, a started run eventually completes and emits its report.
C34_RunCompletes == <>(\E k \in 1..Len(emitted) : emitted[k].alive)

\* C35: for every interactive step, the report's interactive record says tested
\* exactly when the step was completed with a result and holds the fields of
\* that outcome (the run's final interactiveResults), speaker included.
C35_OutcomesReachReport ==
  \A k \in 1..Len(emitted) :
    emitted[k].alive =>
      \A x \in InteractiveIds : emitted[k].report.interactive[x] = ir[x]

\* C36: the final battery step is passed iff the report has no battery-health
\* issue.
C36_BatteryAgree ==
  \A k \in 1..Len(emitted) :
    emitted[k].alive =>
      (emitted[k].ledger[Idx("battery")] = "passed"
         <=> Len(IssuesOf(emitted[k].report, "battery", "health")) = 0)

\* C37: if the final storage step is passed, the report has no storage issue
\* of severity failed.
C37_StorageAgree ==
  \A k \in 1..Len(emitted) :
    (emitted[k].alive /\ emitted[k].ledger[Idx("storage")] = "passed") =>
      \A j \in 1..Len(IssuesOf(emitted[k].report, "storage", "smart")) :
        IssuesOf(emitted[k].report, "storage", "smart")[j].level # "failed"

\* C38: every status written to the ledger is a DetectionStatus the badge can
\* render, so the step list (shown while no test is active) never looks up an
\* unmapped status.
C38_ValidStatuses ==
  /\ page # "crashed"
  /\ (Alive(gen) /\ activeTest = "none") => \A i \in 1..N : steps[i] \in BadgeStatuses

\* C39: when the user picks the speaker test's 'has issue' outcome, the speaker
\* step never ends as passed.
C39_SpeakerIssueNeverPasses ==
  (ir.speaker.tested /\ spButton = "issue") => steps[Idx("speaker")] # "passed"

====
